---- MODULE Spec2Model ----
(***************************************************************************)
(* Texas Hold'em server (server_online.py): the hand engine PokerTable,    *)
(* the hand evaluator HandEvaluator and the PokerServer handlers that      *)
(* drive a table (join, leave, game action, delayed restart, turn timer).  *)
(*                                                                         *)
(* Money.  The source keeps stacks, bets and the pot as Python floats and  *)
(* splits a pot with true division (pot / len(winners)).  Amounts are      *)
(* modelled as exact rationals: an amount is an integer number of ticks,   *)
(* Unit ticks make one chip unit, and Unit is chosen so that every         *)
(* division the bounded model performs is exact (see SplitExact).          *)
(***************************************************************************)
EXTENDS Integers, Sequences, FiniteSets, TLC

\* ------------------------------------------------------------------ bounds
Users == {1, 2}
Users3 == Users \cup {3}
MaxHands == 1
MaxRestarts == 2
MaxJoins == 2

\* one chip unit in ticks: every showdown divides the pot by at most 2
Unit == 2 ^ (MaxHands + 2)

None == 0

\* ------------------------------------------------- table construction data
small_blind == 1 * Unit
big_blind == 2 * Unit
min_buy_in == 3 * Unit
max_buy_in == 4 * Unit
InitialBalance == 4 * Unit

\* ------------------------------------------------------------------- cards
Card(r, s) == [rank |-> r, suit |-> s]

RECURSIVE SumSeq(_)
SumSeq(s) == IF s = <<>> THEN 0 ELSE Head(s) + SumSeq(Tail(s))

Take(s, n) == SubSeq(s, 1, IF n < Len(s) THEN n ELSE Len(s))

\* the ranks of a sequence of cards, sorted descending (cards.sort(reverse))
RECURSIVE RanksFrom(_, _)
RanksFrom(cs, r) ==
    IF r < 2 THEN <<>>
    ELSE [i \in 1..Cardinality({j \in DOMAIN cs : cs[j].rank = r}) |-> r]
         \o RanksFrom(cs, r - 1)
RanksDesc(cs) == RanksFrom(cs, 14)

\* a set of ranks as a descending sequence (sorted(set(...), reverse=True))
RECURSIVE SetDescFrom(_, _)
SetDescFrom(S, r) ==
    IF r < 2 THEN <<>>
    ELSE (IF r \in S THEN <<r>> ELSE <<>>) \o SetDescFrom(S, r - 1)
SetDesc(S) == SetDescFrom(S, 14)

\* StraightHigh without the wheel: the ace counts high only
StraightHighNoWheel(S) ==
    LET tops == {h \in 6..14 : \A d \in 0..4 : (h - d) \in S}
    IN  IF tops # {} THEN CHOOSE h \in tops : \A g \in tops : g <= h
        ELSE 0

\* StraightHigh with the wheel counted by its ace
StraightHighAceTop(S) ==
    LET tops == {h \in 6..14 : \A d \in 0..4 : (h - d) \in S}
    IN  IF tops # {} THEN CHOOSE h \in tops : \A g \in tops : g <= h
        ELSE IF {14, 2, 3, 4, 5} \subseteq S THEN 14
        ELSE 0

\* top rank of the first window of five consecutive ranks, 5 for the wheel,
\* 0 when there is no straight (straight_ranks[0], or 0 for the empty list)
StraightHigh(S) ==
    LET tops == {h \in 6..14 : \A d \in 0..4 : (h - d) \in S}
    IN  IF tops # {} THEN CHOOSE h \in tops : \A g \in tops : g <= h
        ELSE IF {14, 2, 3, 4, 5} \subseteq S THEN 5
        ELSE 0

\* A score is the pair <<k, w>> for the integer k * BASE + w of the source,
\* BASE = 10^10 = 100^5.  w is a sum of rank * 100^i with i <= 4, so it is
\* below 100^5 and the pair compares as the integer does.
Pow100(i) == 100 ^ i

\* Weighted with the first rank only
WeightedFirst(s, top) == IF s = <<>> THEN 0 ELSE Head(s) * Pow100(top)

RECURSIVE Weighted(_, _)
\* sum of s[j] * 100^(top - (j-1)) for j = 1..Len(s)
Weighted(s, top) ==
    IF s = <<>> THEN 0 ELSE Head(s) * Pow100(top) + Weighted(Tail(s), top - 1)

evaluate(hole_cards, community_cards) ==
    LET cards == hole_cards \o community_cards
        ranks == RanksDesc(cards)
        unique == {cards[i].rank : i \in DOMAIN cards}
        SuitCards(s) == SelectSeq(cards, LAMBDA c : c.suit = s)
        flushSuits == {s \in {"s", "h", "d", "c"} : Len(SuitCards(s)) >= 5}
        flush_suit == IF flushSuits = {} THEN "" ELSE CHOOSE s \in flushSuits : TRUE
        flush_cards == Take(RanksDesc(SuitCards(flush_suit)), 5)
        straight == StraightHigh(unique)
        sf == IF flush_suit = "" THEN 0
              ELSE StraightHigh({c.rank : c \in {cards[i] : i \in
                       {j \in DOMAIN cards : cards[j].suit = flush_suit}}})
        Cnt(r) == Cardinality({j \in DOMAIN cards : cards[j].rank = r})
        four_kind == SetDesc({r \in unique : Cnt(r) = 4})
        three_kind == SetDesc({r \in unique : Cnt(r) = 3})
        pairs == SetDesc({r \in unique : Cnt(r) = 2})
        Kickers(excl, n) == Take(SetDesc(unique \ excl), n)
    IN  IF cards = <<>> THEN [score |-> <<0, 0>>, desc |-> "No Hand"]
        ELSE IF sf = 14 THEN [score |-> <<9, 0>>, desc |-> "Royal Flush"]
        ELSE IF sf # 0 THEN
            [score |-> <<8, sf * 1000000>>, desc |-> "Straight Flush"]
        ELSE IF four_kind # <<>> THEN
            [score |-> <<7, four_kind[1] * Pow100(4)
                            + Weighted(Kickers({four_kind[1]}, 1), 3)>>,
             desc |-> "Four of a Kind"]
        ELSE IF three_kind # <<>> /\ (Len(three_kind) >= 2 \/ pairs # <<>>) THEN
            [score |-> <<6, three_kind[1] * Pow100(4)
                            + (IF Len(three_kind) >= 2 THEN three_kind[2]
                               ELSE pairs[1]) * Pow100(3)>>,
             desc |-> "Full House"]
        ELSE IF flush_suit # "" THEN
            [score |-> <<5, Weighted(flush_cards, 4)>>, desc |-> "Flush"]
        ELSE IF straight # 0 THEN
            [score |-> <<4, straight * Pow100(4)>>, desc |-> "Straight"]
        ELSE IF three_kind # <<>> THEN
            [score |-> <<3, three_kind[1] * Pow100(4)
                            + Weighted(Kickers({three_kind[1]}, 2), 3)>>,
             desc |-> "Three of a Kind"]
        ELSE IF Len(pairs) >= 2 THEN
            [score |-> <<2, pairs[1] * Pow100(4) + pairs[2] * Pow100(3)
                            + Weighted(Kickers({pairs[1], pairs[2]}, 1), 2)>>,
             desc |-> "Two Pair"]
        ELSE IF pairs # <<>> THEN
            [score |-> <<1, pairs[1] * Pow100(4)
                            + Weighted(Kickers({pairs[1]}, 3), 3)>>,
             desc |-> "Pair"]
        ELSE [score |-> <<0, Weighted(Take(ranks, 5), 4)>>, desc |-> "High Card"]

ScoreGT(a, b) == a[1] > b[1] \/ (a[1] = b[1] /\ a[2] > b[2])

\* ------------------------------------------------------------------- decks
\* Deck() is a fresh random permutation of the 52 cards; a hand of at most
\* three players pops 11 of them.  The shuffles are drawn from Decks; a deck
\* is written in the order deal() pops it (head = next card dealt).
DeckTie == << Card(14, "s"), Card(13, "d"), Card(14, "h"), Card(13, "c"),
              Card(2, "c"), Card(7, "d"), Card(9, "h"), Card(11, "s"),
              Card(3, "d"), Card(4, "c"), Card(8, "s") >>
DeckLow == << Card(7, "c"), Card(2, "d"), Card(13, "h"), Card(12, "c"),
              Card(14, "s"), Card(14, "d"), Card(9, "h"), Card(11, "s"),
              Card(3, "d"), Card(4, "c"), Card(8, "s") >>
Decks == {DeckTie, DeckLow}

\* Deck.deal(n): the n cards popped, and the deck left
deal(deck, n) == [cards |-> SubSeq(deck, 1, n), deck |-> SubSeq(deck, n + 1, Len(deck))]

\* ------------------------------------------------------------ PokerTable
NoPos == -1
LivePhases == {"preflop", "flop", "turn", "river"}

\* PokerTable.__init__
NewTable(maxp) ==
    [ players |-> [u \in {} |-> 0], dealer_position |-> 0, current_player |-> None,
      pot |-> 0, community_cards |-> << >>, game_phase |-> "waiting",
      current_bet |-> 0, deck |-> << >>, winners |-> << >>,
      active_seat_order |-> << >>, players_acted |-> {},
      max_players |-> maxp ]

\* the dict entry add_player creates
NewPlayer(chips, position) ==
    [ chips |-> chips, position |-> position, is_sitting_out |-> FALSE,
      cards |-> << >>, current_bet |-> 0, folded |-> FALSE, all_in |-> FALSE,
      last_action |-> "" ]

\* results of the table's methods: the table after the call, whether the call
\* raised (KeyError), and the returned value(s)
Ret(t, ok, val) == [t |-> t, exc |-> FALSE, ok |-> ok, val |-> val]
Raise(t) == [t |-> t, exc |-> TRUE, ok |-> FALSE, val |-> "KeyError"]

\* 0-based indexing of the source's lists
At(seq, i) == seq[i + 1]
Min(a, b) == IF a < b THEN a ELSE b

\* list.sort(key=position) of a set of seated users; ties (equal seats) are
\* broken by user id
SortByPosition(t, S) ==
    CHOOSE q \in [1..Cardinality(S) -> S] :
        /\ \A i, j \in DOMAIN q : i # j => q[i] # q[j]
        /\ \A i, j \in DOMAIN q : i < j =>
              \/ t.players[q[i]].position < t.players[q[j]].position
              \/ /\ t.players[q[i]].position = t.players[q[j]].position
                 /\ q[i] < q[j]

\* the 0-based indexes of a list
Indexes(seq) == 0..(Len(seq) - 1)

\* a loop that stops at the first index of hits: that index, or dflt
FirstIdx(hits, dflt) ==
    IF hits = {} THEN dflt ELSE CHOOSE i \in hits : \A j \in hits : i <= j

\* PokerTable._post_blind
post_blind(t, user_id, amount) ==
    LET player == t.players[user_id]
        bet == Min(player.chips, amount)
    IN  [t EXCEPT !.players[user_id].chips = @ - bet,
                  !.players[user_id].current_bet = bet,
                  !.players[user_id].all_in = IF player.chips - bet = 0 THEN TRUE ELSE @,
                  !.pot = @ + bet]

\* the loop of start_hand that deals two cards to each active player, in order
RECURSIVE DealHoles(_, _)
DealHoles(t, order) ==
    IF order = << >> THEN t
    ELSE LET d == deal(t.deck, 2)
             uid == Head(order)
         IN  DealHoles([t EXCEPT !.deck = d.deck,
                                 !.players[uid].cards = d.cards,
                                 !.players[uid].current_bet = 0,
                                 !.players[uid].folded = FALSE,
                                 !.players[uid].all_in = FALSE],
                       Tail(order))

\* a variant of in_hand_players that also takes the players sitting out
seated_with_chips(t) == {uid \in DOMAIN t.players : t.players[uid].chips > 0}

\* the players start_hand takes into the hand (before the sort)
in_hand_players(t) ==
    {uid \in DOMAIN t.players :
        ~t.players[uid].is_sitting_out /\ t.players[uid].chips > 0}

\* a variant of start_hand without the heads-up exception for the blinds
start_hand_no_exception(t, deck) ==
    LET active == in_hand_players(t)
    IN  IF Cardinality(active) < 2 THEN [t EXCEPT !.game_phase = "waiting"]
        ELSE
        LET active_players == SortByPosition(t, active)
            n == Len(active_players)
            current_dealer_idx ==
                FirstIdx({i \in Indexes(active_players) :
                             t.players[At(active_players, i)].position
                                 >= t.dealer_position}, -1)
            dealer_idx == (current_dealer_idx + 1) % n
            t1 == [t EXCEPT !.active_seat_order = active_players,
                            !.dealer_position =
                                t.players[At(active_players, dealer_idx)].position,
                            !.game_phase = "preflop",
                            !.pot = 0,
                            !.community_cards = << >>,
                            !.deck = deck,
                            !.winners = << >>,
                            !.players_acted = {}]
            t2 == DealHoles(t1, active_players)
            sb_idx == (dealer_idx + 1) % n
            bb_idx == (dealer_idx + 2) % n
            t3 == post_blind(t2, At(active_players, sb_idx), small_blind)
            t4 == post_blind(t3, At(active_players, bb_idx), big_blind)
            next_idx == (bb_idx + 1) % n
        IN  [t4 EXCEPT !.current_bet = big_blind,
                       !.current_player = At(active_players, next_idx)]

\* PokerTable.start_hand; deck is the shuffle Deck() produces
start_hand(t, deck) ==
    LET active == in_hand_players(t)
    IN  IF Cardinality(active) < 2 THEN [t EXCEPT !.game_phase = "waiting"]
        ELSE
        LET active_players == SortByPosition(t, active)
            n == Len(active_players)
            current_dealer_idx ==
                FirstIdx({i \in Indexes(active_players) :
                             t.players[At(active_players, i)].position
                                 >= t.dealer_position}, -1)
            dealer_idx == (current_dealer_idx + 1) % n
            t1 == [t EXCEPT !.active_seat_order = active_players,
                            !.dealer_position =
                                t.players[At(active_players, dealer_idx)].position,
                            !.game_phase = "preflop",
                            !.pot = 0,
                            !.community_cards = << >>,
                            !.deck = deck,
                            !.winners = << >>,
                            !.players_acted = {}]
            t2 == DealHoles(t1, active_players)
            sb_idx == IF n = 2 THEN dealer_idx ELSE (dealer_idx + 1) % n
            bb_idx == IF n = 2 THEN (dealer_idx + 1) % 2 ELSE (dealer_idx + 2) % n
            t3 == post_blind(t2, At(active_players, sb_idx), small_blind)
            t4 == post_blind(t3, At(active_players, bb_idx), big_blind)
            next_idx == (bb_idx + 1) % n
        IN  [t4 EXCEPT !.current_bet = big_blind,
                       !.current_player = At(active_players, next_idx)]

\* PokerTable.add_player, lines 372-390: the table with the player's entry
\* written (an entry of the same user is replaced); position = NoPos is None
seat_player(t, user_id, chips, position) ==
    LET taken == {t.players[u].position : u \in DOMAIN t.players}
        free == {i \in 0..(t.max_players - 1) : i \notin taken}
        pos == IF position # NoPos THEN position
               ELSE IF free = {} THEN NoPos
               ELSE CHOOSE i \in free : \A j \in free : i <= j
    IN  [t EXCEPT !.players =
            [u \in DOMAIN t.players \cup {user_id} |->
                IF u = user_id THEN NewPlayer(chips, pos) ELSE t.players[u]]]

\* PokerTable.add_player; val is the seat given
add_player(t, user_id, chips, position, deck) ==
    IF Cardinality(DOMAIN t.players) >= t.max_players
    THEN Ret(t, FALSE, "Table is full")
    ELSE
    LET t1 == seat_player(t, user_id, chips, position)
        t2 == IF t1.game_phase = "waiting" /\ Cardinality(DOMAIN t1.players) >= 2
              THEN start_hand(t1, deck) ELSE t1
    IN  Ret(t2, TRUE, t1.players[user_id].position)

\* self.players[uid] raises KeyError for a uid of the hand that has left
OrderSeated(t) ==
    \A i \in DOMAIN t.active_seat_order : t.active_seat_order[i] \in DOMAIN t.players

\* _end_hand_winner that names the winner without paying the pot
end_hand_winner_unpaid(t, winner_id) ==
    [t EXCEPT !.winners = << [user_id |-> winner_id, amount |-> t.pot,
                              hand |-> "Opponents Folded"] >>,
              !.game_phase = "showdown"]

\* PokerTable._end_hand_winner
end_hand_winner(t, winner_id) ==
    [t EXCEPT !.players[winner_id].chips = @ + t.pot,
              !.winners = << [user_id |-> winner_id, amount |-> t.pot,
                              hand |-> "Opponents Folded"] >>,
              !.game_phase = "showdown"]

\* the loop of _evaluate_showdown that credits each winner
RECURSIVE CreditWinners(_, _, _)
CreditWinners(t, ws, split_amount) ==
    IF ws = << >> THEN t
    ELSE CreditWinners([t EXCEPT !.players[Head(ws)].chips = @ + split_amount],
                       Tail(ws), split_amount)

\* the players of _evaluate_showdown with the best score, in seat order (the
\* stable sort by score keeps tied players in seat order)
showdown_winners(t) ==
    LET results == SelectSeq(t.active_seat_order,
                             LAMBDA uid : ~t.players[uid].folded)
        Score(uid) == evaluate(t.players[uid].cards, t.community_cards).score
        best(uid) == \A i \in DOMAIN results : ~ScoreGT(Score(results[i]), Score(uid))
    IN  SelectSeq(results, best)

\* PokerTable._evaluate_showdown (called with every uid of the hand seated)
evaluate_showdown(t) ==
    LET Pay(winners) ==
            LET split_amount == t.pot \div Len(winners)
            IN  [CreditWinners(t, winners, split_amount) EXCEPT
                    !.winners = [i \in DOMAIN winners |->
                        [user_id |-> winners[i], amount |-> split_amount,
                         hand |-> evaluate(t.players[winners[i]].cards,
                                           t.community_cards).desc]]]
    IN  IF \A i \in DOMAIN t.active_seat_order :
              t.players[t.active_seat_order[i]].folded
        THEN t
        ELSE Pay(showdown_winners(t))

\* the run-out loop of _next_phase: deal until the board has five cards
RECURSIVE RunOut(_)
RunOut(t) ==
    IF Len(t.community_cards) >= 5 THEN t
    ELSE LET d == deal(t.deck, 1)
         IN  RunOut([t EXCEPT !.community_cards = @ \o d.cards, !.deck = d.deck])

\* PokerTable._next_phase (called with every uid of the hand seated)
next_phase(t) ==
    LET n == Len(t.active_seat_order)
        dealer_idx == FirstIdx({i \in Indexes(t.active_seat_order) :
                                   t.players[At(t.active_seat_order, i)].position
                                       = t.dealer_position}, -1)
        offs == {i \in 1..n :
                    LET p == t.players[At(t.active_seat_order, (dealer_idx + i) % n)]
                    IN  ~p.folded /\ ~p.all_in}
        next_player ==
            IF offs = {} THEN None
            ELSE At(t.active_seat_order,
                    (dealer_idx + (CHOOSE i \in offs : \A j \in offs : i <= j)) % n)
        \* the street dealt from the cleared table t1
        Street(t1, phase, d) ==
            [t1 EXCEPT !.game_phase = phase,
                       !.community_cards =
                           IF phase = "flop" THEN d.cards ELSE @ \o d.cards,
                       !.deck = d.deck]
        Dealt(t1) ==
            IF t.game_phase = "preflop" THEN Street(t1, "flop", deal(t1.deck, 3))
            ELSE IF t.game_phase = "flop" THEN Street(t1, "turn", deal(t1.deck, 1))
            ELSE IF t.game_phase = "turn" THEN Street(t1, "river", deal(t1.deck, 1))
            ELSE t1
        Advance(t2) ==
            IF t.game_phase = "river"
            THEN evaluate_showdown([t2 EXCEPT !.game_phase = "showdown"])
            ELSE IF next_player # None
            THEN [t2 EXCEPT !.current_player = next_player]
            ELSE evaluate_showdown([RunOut(t2) EXCEPT !.game_phase = "showdown"])
    IN  Advance(Dealt([t EXCEPT
            !.players = [u \in DOMAIN t.players |->
                IF \E i \in DOMAIN t.active_seat_order : t.active_seat_order[i] = u
                THEN [t.players[u] EXCEPT !.current_bet = 0, !.last_action = ""]
                ELSE t.players[u]],
            !.current_bet = 0,
            !.players_acted = {}]))

\* a variant of _next_turn that ends the round as soon as the bets are matched
next_turn_matched(t) ==
    IF ~OrderSeated(t) THEN Raise(t)
    ELSE
    LET order == t.active_seat_order
        n == Len(order)
        Active(uid) == ~t.players[uid].folded /\ ~t.players[uid].all_in
        non_folded == SelectSeq(order, LAMBDA uid : ~t.players[uid].folded)
        curr_idx == FirstIdx({i \in Indexes(order) : At(order, i) = t.current_player}, 0)
        offs == {i \in 1..(n - 1) : Active(At(order, (curr_idx + i) % n))}
        next_player ==
            IF offs = {} THEN None
            ELSE At(order, (curr_idx + (CHOOSE i \in offs : \A j \in offs : i <= j)) % n)
        all_matched == \A i \in DOMAIN order :
                          ~(Active(order[i])
                            /\ t.players[order[i]].current_bet # t.current_bet)
    IN  IF Len(non_folded) = 1 THEN Ret(end_hand_winner(t, non_folded[1]), TRUE, "")
        ELSE IF all_matched THEN Ret(next_phase(t), TRUE, "")
        ELSE Ret([t EXCEPT !.current_player = next_player], TRUE, "")

\* PokerTable._next_turn; raises KeyError when a uid of the hand has left
next_turn(t) ==
    IF ~OrderSeated(t) THEN Raise(t)
    ELSE
    LET order == t.active_seat_order
        n == Len(order)
        Active(uid) == ~t.players[uid].folded /\ ~t.players[uid].all_in
        active_players == SelectSeq(order, Active)
        non_folded == SelectSeq(order, LAMBDA uid : ~t.players[uid].folded)
        curr_idx == FirstIdx({i \in Indexes(order) : At(order, i) = t.current_player}, 0)
        offs == {i \in 1..(n - 1) : Active(At(order, (curr_idx + i) % n))}
        next_player ==
            IF offs = {} THEN None
            ELSE At(order, (curr_idx + (CHOOSE i \in offs : \A j \in offs : i <= j)) % n)
        all_matched == \A i \in DOMAIN order :
                          ~(Active(order[i])
                            /\ t.players[order[i]].current_bet # t.current_bet)
        all_acted == \A i \in DOMAIN active_players :
                        active_players[i] \in t.players_acted
    IN  IF Len(non_folded) = 1 THEN Ret(end_hand_winner(t, non_folded[1]), TRUE, "")
        ELSE IF all_matched /\ all_acted THEN Ret(next_phase(t), TRUE, "")
        ELSE Ret([t EXCEPT !.current_player = next_player], TRUE, "")

\* PokerTable.handle_action, lines 499-551: the checks and the effect of a
\* betting action of a seated user; ok is FALSE with the message of a
\* rejection, TRUE with the table the action leaves
bet_effect(t, user_id, action, amount) ==
    LET player == t.players[user_id]
        Done(t1) == [ok |-> TRUE, t |-> t1, val |-> ""]
        Reject(msg) == [ok |-> FALSE, t |-> t, val |-> msg]
    IN  IF t.game_phase = "waiting" \/ t.game_phase = "showdown"
        THEN Reject("Game not active")
        ELSE IF user_id # t.current_player THEN Reject("Not your turn")
        ELSE IF action = "fold" THEN
            Done([t EXCEPT !.players[user_id].folded = TRUE,
                           !.players[user_id].cards = << >>,
                           !.players[user_id].last_action = "FOLD"])
        ELSE IF action = "call" THEN
            LET short == (t.current_bet - player.current_bet) > player.chips
                to_call == IF short THEN player.chips
                           ELSE t.current_bet - player.current_bet
                all_in == IF short THEN TRUE ELSE player.all_in
            IN  Done([t EXCEPT !.players[user_id].all_in = all_in,
                               !.players[user_id].chips = @ - to_call,
                               !.players[user_id].current_bet = @ + to_call,
                               !.pot = @ + to_call,
                               !.players[user_id].last_action =
                                   IF all_in THEN "ALL-IN" ELSE "CALL"])
        ELSE IF action = "check" THEN
            IF player.current_bet < t.current_bet
            THEN Reject("Cannot check, must call")
            ELSE Done([t EXCEPT !.players[user_id].last_action = "CHECK"])
        ELSE IF action = "raise" THEN
            LET to_add == amount - player.current_bet
            IN  IF amount < t.current_bet * 2
                   /\ amount # player.chips + player.current_bet
                THEN Reject("Raise too small")
                ELSE IF to_add > player.chips THEN Reject("Not enough chips")
                ELSE Done([t EXCEPT
                        !.players[user_id].chips = @ - to_add,
                        !.players[user_id].current_bet = @ + to_add,
                        !.pot = @ + to_add,
                        !.current_bet = amount,
                        !.players[user_id].all_in =
                            IF player.chips - to_add = 0 THEN TRUE ELSE @,
                        !.players[user_id].last_action =
                            IF player.chips - to_add = 0 THEN "ALL-IN" ELSE "RAISE"])
        ELSE Done(t)

\* PokerTable.handle_action, lines 499-556: a betting action of a seated user;
\* an action that passed the checks is recorded and the turn advances
bet_action(t, user_id, action, amount) ==
    LET Accepted(r) == IF r.exc THEN r ELSE Ret(r.t, TRUE, "Action accepted")
        Finish(e) ==
            IF ~e.ok THEN Ret(e.t, FALSE, e.val)
            ELSE Accepted(next_turn([e.t EXCEPT !.players_acted = @ \cup {user_id}]))
    IN  Finish(bet_effect(t, user_id, action, amount))

\* PokerTable.handle_action; raises KeyError when user_id is not seated
handle_action(t, user_id, action, amount) ==
    LET SatOut(r) == IF r.exc THEN r ELSE Ret(r.t, TRUE, "Sitting out")
    IN  IF user_id \notin DOMAIN t.players THEN Raise(t)
        ELSE IF action = "sitout" THEN
            IF t.game_phase # "waiting" /\ t.game_phase # "showdown"
               /\ ~t.players[user_id].folded
            THEN SatOut(bet_action([t EXCEPT !.players[user_id].is_sitting_out = TRUE],
                                   user_id, "fold", 0))
            ELSE Ret([t EXCEPT !.players[user_id].is_sitting_out = TRUE],
                     TRUE, "Sitting out")
        ELSE IF action = "sitin" THEN
            Ret([t EXCEPT !.players[user_id].is_sitting_out = FALSE], TRUE, "Sitting in")
        ELSE bet_action(t, user_id, action, amount)

\* PokerTable.remove_player; val is the stack returned
remove_player(t, user_id) ==
    LET Removed(chips, r) ==
            IF r.exc THEN r
            ELSE IF Cardinality({u \in DOMAIN r.t.players :
                                    ~r.t.players[u].is_sitting_out}) < 2
            THEN Ret([r.t EXCEPT !.game_phase = "waiting", !.pot = 0,
                                 !.community_cards = << >>], TRUE, chips)
            ELSE Ret(r.t, TRUE, chips)
        Folded(t1) ==
            IF t1.game_phase # "waiting" /\ t1.current_player = user_id
            THEN handle_action(t1, user_id, "fold", 0)
            ELSE Ret(t1, TRUE, "")
    IN  IF user_id \notin DOMAIN t.players THEN Ret(t, TRUE, 0)
        ELSE Removed(t.players[user_id].chips,
                     Folded([t EXCEPT !.players =
                         [u \in DOMAIN t.players \ {user_id} |-> t.players[u]]]))

\* Card.RANKS and Card.to_dict
RANKS(r) ==
    CASE r = 10 -> "T" [] r = 11 -> "J" [] r = 12 -> "Q" [] r = 13 -> "K"
      [] r = 14 -> "A" [] OTHER -> ToString(r)

to_dict(c) == [rank |-> RANKS(c.rank), suit |-> c.suit, value |-> c.rank]

\* the entry get_state sends in place of a card that is not shown
HiddenCard == [rank |-> "?", suit |-> "?", value |-> 0]

\* a variant of shown_cards that sends every player's cards
shown_cards_open(t, uid, for_user_id) ==
    [i \in DOMAIN t.players[uid].cards |-> to_dict(t.players[uid].cards[i])]

\* PokerTable.get_state: the cards of player uid in the snapshot for for_user_id
shown_cards(t, uid, for_user_id) ==
    LET p == t.players[uid]
    IN  IF for_user_id = uid \/ (t.game_phase = "showdown" /\ ~p.folded)
        THEN [i \in DOMAIN p.cards |-> to_dict(p.cards[i])]
        ELSE IF p.folded THEN << >>
        ELSE IF p.cards # << >> THEN << HiddenCard, HiddenCard >> ELSE << >>

\* PokerTable.get_state(for_user_id); the constant fields of the table (id,
\* name, blinds, buy-in limits) are left out
get_state(t, for_user_id) ==
    [ players |->
          [uid \in DOMAIN t.players |->
              [ user_id |-> uid,
                chips |-> t.players[uid].chips,
                position |-> t.players[uid].position,
                is_sitting_out |-> t.players[uid].is_sitting_out,
                current_bet |-> t.players[uid].current_bet,
                has_cards |-> Len(t.players[uid].cards) > 0,
                cards |-> shown_cards(t, uid, for_user_id),
                folded |-> t.players[uid].folded,
                all_in |-> t.players[uid].all_in,
                last_action |-> t.players[uid].last_action ]],
      max_players |-> t.max_players,
      dealer_position |-> t.dealer_position,
      current_player |-> t.current_player,
      pot |-> t.pot,
      community_cards |->
          [i \in DOMAIN t.community_cards |-> to_dict(t.community_cards[i])],
      game_phase |-> t.game_phase,
      current_bet |-> t.current_bet,
      winners |-> t.winners ]

\* ------------------------------------------------------------ PokerServer
VARIABLES
    table,          \* the PokerTable object (one table of self.tables)
    balance,        \* wallets.balance of every user
    user_tables,    \* the users that self.user_tables maps to the table
    table_timers,   \* player the outstanding turn-timer task was created for
    restarts,       \* number of restart_hand tasks sleeping
    hands,          \* number of hands dealt so far
    joins,          \* number of join requests that seated a player so far
    raised,         \* the last handler ended by raising an exception
    min_raise,      \* history: the minimum raise increment of the street
    closed,         \* history: players a short all-in raise did not reopen for
    open_ws,        \* the websockets whose handle_connection loop is running
    connections,    \* self.connections: websocket -> user id (None: no entry)
    user_connections, \* self.user_connections: user id -> websocket
    transactions,   \* the rows of the transactions table, in insertion order
    total_deposited, \* wallets.total_deposited of every user
    orders,         \* the status the payment provider holds for every order id
    broadcasting,   \* << user, action >> of the game action that is applied
                    \* while its handler is suspended in
                    \* broadcast_table_state (<< >>: no such handler)
    debiting,       \* websocket -> << kind, user, amount >> of the handler of
                    \* its request that has read the balance and is suspended
                    \* before its UPDATE (<< >>: no such handler)
    eval_cards,     \* << hand, hand >>: the hole cards (2) followed by the
                    \* community cards (5) handed to HandEvaluator.evaluate
    eval_out        \* << result, result >> of the evaluations (<< >>: none yet)

conn_vars == << open_ws, connections, user_connections >>
wallet_vars == << transactions, total_deposited, orders >>
eval_vars == << eval_cards, eval_out >>

vars == << table, balance, user_tables, table_timers, restarts, hands, joins,
           raised, min_raise, closed, conn_vars, wallet_vars, broadcasting, debiting, eval_vars >>

\* the websockets and the order ids of the payment provider
Conns == {1, 2, 3}
OrderIds == {1, 2}

\* a row of the transactions table
Tx(user_id, type, amount, status, paypal_order_id) ==
    [ user_id |-> user_id, type |-> type, amount |-> amount, status |-> status,
      paypal_order_id |-> paypal_order_id ]

\* the server just constructed: no authenticated connection, an empty
\* transactions table (the wallets were funded by the operator), no order
InitServer ==
    /\ open_ws = Conns
    /\ connections = [c \in Conns |-> None]
    /\ user_connections = [u \in Users3 |-> None]
    /\ transactions = << >>
    /\ total_deposited = [u \in Users3 |-> 0]
    /\ orders = [o \in OrderIds |-> "NONE"]
    /\ broadcasting = << >>
    /\ debiting = [c \in Conns |-> << >>]

\* no evaluation outside a hand is in progress
NoEvaluation ==
    /\ eval_cards = << >>
    /\ eval_out = << >>

\* user u holds an authenticated websocket: self.connections.get(ws) = u
Authenticated(u) == \E c \in open_ws : connections[c] = u

Seats == {2}
BuyIns == {min_buy_in, max_buy_in, max_buy_in + Unit}
BetActions == {"fold", "check", "call", "raise"}
Actions == BetActions \cup {"sitout", "sitin"}

Init ==
    /\ \E maxp \in Seats : table = NewTable(maxp)
    /\ balance = [u \in Users |-> InitialBalance]
    /\ user_tables = {}
    /\ table_timers = None
    /\ restarts = 0
    /\ hands = 0
    /\ joins = 0
    /\ raised = FALSE
    /\ min_raise = big_blind
    /\ closed = {}
    /\ InitServer
    /\ NoEvaluation

\* start_hand deals (does not return early)
Deals(t) == Cardinality(in_hand_players(t)) >= 2

\* the shuffles a call of start_hand may draw
Shuffles(starts) == IF starts THEN Decks ELSE {DeckTie}

\* PokerServer._start_turn_timer: the timer outstanding after the call
start_turn_timer(t) ==
    IF t.game_phase \in LivePhases /\ t.current_player # None
    THEN t.current_player ELSE None

\* The history variables after a step. The table keeps no minimum raise: the
\* increment is the big blind when a street begins and the size of the last
\* raise after a raise to level by raiser (None: the step accepted no raise).
\* A raise by less than the minimum closes the raise option of the players who
\* had acted and matched the bet; a full raise opens it again.
Track(raiser, level) ==
    LET street == hands' # hands \/ table'.game_phase # table.game_phase
        matched == {p \in (DOMAIN table.players \cap table.players_acted) \ {raiser} :
                       /\ table.players[p].current_bet = table.current_bet
                       /\ ~table.players[p].folded
                       /\ ~table.players[p].all_in}
    IN  /\ min_raise' = IF street THEN big_blind
                        ELSE IF raiser # None THEN level - table.current_bet
                        ELSE min_raise
        /\ closed' = IF street THEN {}
                     ELSE IF raiser = None THEN closed
                     ELSE IF level - table.current_bet < min_raise
                     THEN closed \cup matched
                     ELSE {}

\* PokerServer.handle_join_cash_table / handle_join_private_game
\* the checks of handle_join_cash_table: the buy-in bounds and the balance
\* that was read
JoinRejected(u, buy_in) ==
    buy_in < min_buy_in \/ buy_in > max_buy_in \/ balance[u] < buy_in

\* handle_join_cash_table after its checks: the debit, the buy-in row,
\* add_player and, when add_player fails, the refund
JoinSeat(u, buy_in) ==
    LET full == Cardinality(DOMAIN table.players) >= table.max_players
        starts == /\ ~full
                  /\ table.game_phase = "waiting"
                  /\ Cardinality(DOMAIN table.players \cup {u}) >= 2
                  /\ Deals(seat_player(table, u, buy_in, NoPos))
        Joined(r) ==
            IF r.ok
            THEN /\ table' = r.t
                 /\ balance' = [balance EXCEPT ![u] = @ - buy_in]
                 /\ user_tables' = user_tables \cup {u}
                 /\ table_timers' = start_turn_timer(r.t)
                 /\ raised' = FALSE
            ELSE /\ raised' = FALSE
                 /\ UNCHANGED << table, balance, user_tables, table_timers >>
    IN  /\ joins' = IF full THEN joins ELSE joins + 1
        /\ \E deck \in Shuffles(starts) :
             Joined(add_player(table, u, buy_in, NoPos, deck))
        /\ transactions' = Append(transactions,
                               Tx(u, "table_buy_in", -buy_in, "completed", None))
        /\ hands' = IF starts THEN hands + 1 ELSE hands
        /\ UNCHANGED << restarts, conn_vars, total_deposited, orders, broadcasting, eval_vars >>
        /\ Track(None, 0)

\* PokerServer.handle_join_cash_table, run without interleaving
JoinTable(u, buy_in) ==
    IF JoinRejected(u, buy_in)
    THEN /\ raised' = FALSE
         /\ UNCHANGED << table, balance, user_tables, table_timers, restarts, hands, joins,
                      min_raise, closed, conn_vars, wallet_vars, broadcasting, debiting, eval_vars >>
    ELSE JoinSeat(u, buy_in) /\ UNCHANGED debiting

\* PokerServer.handle_leave_table
LeaveTable(u) ==
    IF u \notin user_tables
    THEN /\ raised' = FALSE
         /\ UNCHANGED << table, balance, user_tables, table_timers, restarts, hands, joins,
                      min_raise, closed, conn_vars, wallet_vars, broadcasting, debiting, eval_vars >>
    ELSE
    LET Left(r) ==
            /\ table' = r.t
            /\ IF r.exc
               THEN /\ raised' = TRUE
                    /\ UNCHANGED << balance, user_tables, transactions >>
               ELSE /\ raised' = FALSE
                    /\ user_tables' = user_tables \ {u}
                    /\ balance' = [balance EXCEPT ![u] = @ + r.val]
                    /\ transactions' =
                          IF r.val > 0
                          THEN Append(transactions,
                                   Tx(u, "table_cash_out", r.val, "completed", None))
                          ELSE transactions
    IN  /\ Left(remove_player(table, u))
        /\ UNCHANGED << table_timers, restarts, hands, joins, conn_vars,
                        total_deposited, orders, broadcasting, debiting, eval_vars >>
        /\ Track(None, 0)

\* the amounts a raise request may carry
RaiseAmounts(u) ==
    IF u \notin DOMAIN table.players THEN {0}
    ELSE { table.current_bet * 2,
           table.players[u].chips + table.players[u].current_bet,
           table.current_bet + small_blind }

\* PokerServer.handle_game_action
GameAction(u, action, amount) ==
    IF u \notin user_tables
    THEN /\ raised' = FALSE
         /\ UNCHANGED << table, balance, user_tables, table_timers, restarts, hands, joins,
                      min_raise, closed, conn_vars, wallet_vars, broadcasting, debiting, eval_vars >>
    ELSE
    LET Handled(r) ==
            /\ table' = r.t
            /\ IF r.exc
               THEN /\ raised' = TRUE
                    /\ UNCHANGED << table_timers, restarts >>
               ELSE IF r.ok
               THEN /\ raised' = FALSE
                    /\ IF r.t.game_phase = "showdown"
                       THEN /\ restarts' = restarts + 1
                            /\ table_timers' = None
                       ELSE /\ table_timers' = start_turn_timer(r.t)
                            /\ UNCHANGED restarts
               ELSE /\ raised' = FALSE
                    /\ UNCHANGED << table_timers, restarts >>
            /\ UNCHANGED << balance, user_tables, hands, joins, conn_vars, wallet_vars,
                            broadcasting, debiting, eval_vars >>
            /\ IF action = "raise" /\ r.ok THEN Track(u, amount) ELSE Track(None, 0)
    IN  Handled(handle_action(table, u, action, amount))

\* PokerServer.handle_game_action up to its await of broadcast_table_state:
\* the action is applied, the turn timer is not yet replaced
GameActionApply(u, action, amount) ==
    /\ broadcasting = << >>
    /\ UNCHANGED << balance, user_tables, table_timers, restarts, hands, joins,
                    conn_vars, wallet_vars, debiting, eval_vars >>
    /\ IF u \notin user_tables
       THEN /\ raised' = FALSE
            /\ UNCHANGED << table, broadcasting, min_raise, closed >>
       ELSE
       LET Handled(r) ==
               /\ table' = r.t
               /\ raised' = r.exc
               /\ broadcasting' = IF r.ok THEN << u, action >> ELSE << >>
               /\ IF action = "raise" /\ r.ok THEN Track(u, amount) ELSE Track(None, 0)
       IN  Handled(handle_action(table, u, action, amount))

\* PokerServer.handle_game_action after the broadcast: the restart is scheduled
\* or the turn timer is replaced, by the state the table has now
GameActionFinish ==
    /\ broadcasting # << >>
    /\ broadcasting' = << >>
    /\ IF table.game_phase = "showdown"
       THEN /\ restarts' = restarts + 1
            /\ table_timers' = None
       ELSE /\ table_timers' = start_turn_timer(table)
            /\ UNCHANGED restarts
    /\ raised' = FALSE
    /\ UNCHANGED << table, balance, user_tables, hands, joins, min_raise, closed,
                    conn_vars, wallet_vars, debiting, eval_vars >>

\* PokerServer.restart_hand, after its sleep
RestartHand ==
    /\ restarts > 0
    /\ \E deck \in Shuffles(Deals(table)) :
         /\ table' = start_hand(table, deck)
         /\ table_timers' = start_turn_timer(table')
    /\ restarts' = restarts - 1
    /\ hands' = IF Deals(table) THEN hands + 1 ELSE hands
    /\ raised' = FALSE
    /\ UNCHANGED << balance, user_tables, joins, conn_vars, wallet_vars, broadcasting, debiting, eval_vars >>
    /\ Track(None, 0)

\* PokerServer._turn_timeout_task, after its sleep
TurnTimeout ==
    /\ table_timers # None
    /\ LET player_id == table_timers
           forced == /\ table.current_player = player_id
                     /\ table.game_phase \in LivePhases
                     /\ player_id \in DOMAIN table.players
           action == IF table.players[player_id].current_bet = table.current_bet
                     THEN "check" ELSE "fold"
           Forced(r) ==
               IF r.exc
               THEN /\ table' = r.t
                    /\ table_timers' = None
                    /\ raised' = TRUE
               ELSE IF r.ok
               THEN /\ table' = [r.t EXCEPT !.players[player_id].is_sitting_out = TRUE]
                    /\ table_timers' = start_turn_timer(table')
                    /\ raised' = FALSE
               ELSE /\ table' = r.t
                    /\ table_timers' = None
                    /\ raised' = FALSE
       IN  IF ~forced
           THEN /\ table_timers' = None
                /\ raised' = FALSE
                /\ UNCHANGED table
           ELSE Forced(handle_action(table, player_id, action, 0))
    /\ UNCHANGED << balance, user_tables, restarts, hands, joins, conn_vars,
                    wallet_vars, broadcasting, debiting, eval_vars >>
    /\ Track(None, 0)

\* PokerServer.handle_login with the credentials of user u on websocket c
Login(c, u) ==
    /\ c \in open_ws
    /\ connections' = [connections EXCEPT ![c] = u]
    /\ user_connections' = [user_connections EXCEPT ![u] = c]
    /\ raised' = FALSE
    /\ UNCHANGED << table, balance, user_tables, table_timers, restarts, hands, joins,
                    min_raise, closed, open_ws, wallet_vars, broadcasting, debiting, eval_vars >>

\* the cleanup of PokerServer.handle_connection when websocket c closes
Disconnect(c) ==
    /\ c \in open_ws
    /\ open_ws' = open_ws \ {c}
    /\ connections' = [connections EXCEPT ![c] = None]
    /\ LET user_id == connections[c]
           seated == /\ user_id # None
                     /\ user_id \in user_tables
                     /\ user_id \in DOMAIN table.players
           Marked(t) ==
               LET action == IF t.players[user_id].current_bet = t.current_bet
                             THEN "check" ELSE "fold"
                   Forced(r) ==
                       /\ table' = r.t
                       /\ raised' = r.exc
                       /\ table_timers' = IF r.exc THEN table_timers
                                          ELSE start_turn_timer(r.t)
               IN  IF t.current_player = user_id /\ t.game_phase \in LivePhases
                   THEN Forced(handle_action(t, user_id, action, 0))
                   ELSE /\ table' = t
                        /\ raised' = FALSE
                        /\ UNCHANGED table_timers
       IN  /\ user_connections' =
                 IF user_id = None THEN user_connections
                 ELSE [user_connections EXCEPT ![user_id] = None]
           /\ IF seated
              THEN Marked([table EXCEPT !.players[user_id].is_sitting_out = TRUE])
              ELSE /\ raised' = FALSE
                   /\ UNCHANGED << table, table_timers >>
    /\ UNCHANGED << balance, user_tables, restarts, hands, joins, wallet_vars,
                    broadcasting, debiting, eval_vars >>
    /\ Track(None, 0)

\* ----------------------------------------------------------------- wallet
\* limits of the wallet requests, in ticks (one currency unit is Unit ticks)
min_deposit == 1 * Unit
max_deposit == 1000 * Unit
min_withdrawal == 10 * Unit

\* UPDATE transactions SET status = ... WHERE paypal_order_id = order_id
SetStatusOfOrder(txs, order_id, status) ==
    [i \in DOMAIN txs |->
        IF txs[i].paypal_order_id = order_id
        THEN [txs[i] EXCEPT !.status = status] ELSE txs[i]]

\* the ids of the rows a SELECT ... WHERE paypal_order_id = ? AND user_id = ?
\* returns
RowsOfOrder(txs, order_id, user_id) ==
    {i \in DOMAIN txs :
        txs[i].paypal_order_id = order_id /\ txs[i].user_id = user_id}

\* cursor.fetchone(): the first row of a result
FirstRow(rows) == CHOOSE i \in rows : \A j \in rows : i <= j

\* PokerServer.handle_create_deposit; the provider creates the order (a free
\* order id) or the call fails
CreateDeposit(u, amount) ==
    /\ raised' = FALSE
    /\ UNCHANGED << table, balance, user_tables, table_timers, restarts, hands, joins,
                    min_raise, closed, conn_vars, total_deposited, broadcasting, debiting, eval_vars >>
    /\ IF amount < min_deposit \/ amount > max_deposit
       THEN UNCHANGED << transactions, orders >>
       ELSE \/ UNCHANGED << transactions, orders >>
            \/ \E o \in OrderIds :
                 /\ orders[o] = "NONE"
                 /\ \A o2 \in OrderIds : orders[o2] = "NONE" => o <= o2
                 /\ orders' = [orders EXCEPT ![o] = "CREATED"]
                 /\ transactions' =
                       Append(transactions, Tx(u, "deposit", amount, "pending", o))

\* the payer approves a created order at the payment provider
PayerApproves(o) ==
    /\ orders[o] = "CREATED"
    /\ orders' = [orders EXCEPT ![o] = "APPROVED"]
    /\ raised' = FALSE
    /\ UNCHANGED << table, balance, user_tables, table_timers, restarts, hands, joins,
                    min_raise, closed, conn_vars, transactions, total_deposited,
                    broadcasting, debiting, eval_vars >>

\* PokerServer.handle_verify_deposit (the capture_deposit request); captured
\* tells whether the provider completes the capture of an approved order
VerifyDeposit(u, order_id, captured) ==
    LET status == IF orders[order_id] = "APPROVED" /\ captured
                  THEN "COMPLETED" ELSE orders[order_id]
        rows == RowsOfOrder(transactions, order_id, u)
        Credit(amount) ==
            /\ balance' = [balance EXCEPT ![u] = @ + amount]
            /\ total_deposited' = [total_deposited EXCEPT ![u] = @ + amount]
            /\ transactions' = SetStatusOfOrder(transactions, order_id, "completed")
    IN  /\ orders' = [orders EXCEPT ![order_id] = status]
        /\ IF status = "COMPLETED" /\ rows # {}
           THEN Credit(transactions[FirstRow(rows)].amount)
           ELSE UNCHANGED << balance, total_deposited, transactions >>
        /\ raised' = FALSE
        /\ UNCHANGED << table, user_tables, table_timers, restarts, hands, joins,
                        min_raise, closed, conn_vars, broadcasting, debiting, eval_vars >>

\* PokerServer.handle_cancel_deposit
CancelDeposit(u, order_id) ==
    /\ transactions' =
          IF \E i \in RowsOfOrder(transactions, order_id, u) :
                 transactions[i].status = "pending"
          THEN SetStatusOfOrder(transactions, order_id, "cancelled")
          ELSE transactions
    /\ raised' = FALSE
    /\ UNCHANGED << table, balance, user_tables, table_timers, restarts, hands, joins,
                    min_raise, closed, conn_vars, total_deposited, orders,
                    broadcasting, debiting, eval_vars >>

\* the checks of handle_withdraw: the minimum and the balance that was read
WithdrawRejected(u, amount) ==
    amount < min_withdrawal \/ balance[u] < amount

\* handle_withdraw after its checks: the debit and the withdrawal row
WithdrawDebit(u, amount) ==
    /\ balance' = [balance EXCEPT ![u] = @ - amount]
    /\ transactions' =
          Append(transactions,
                 Tx(u, "withdrawal", amount, "pending_approval", None))

\* PokerServer.handle_withdraw (with a well-formed paypal_email), run without
\* interleaving
Withdraw(u, amount) ==
    /\ IF WithdrawRejected(u, amount)
       THEN UNCHANGED << balance, transactions >>
       ELSE WithdrawDebit(u, amount)
    /\ raised' = FALSE
    /\ UNCHANGED << table, user_tables, table_timers, restarts, hands, joins,
                    min_raise, closed, conn_vars, total_deposited, orders,
                    broadcasting, debiting, eval_vars >>

\* PokerServer.handle_withdraw on websocket c up to the await that follows its
\* SELECT of the balance: a request that passes the checks is suspended
WithdrawRead(c, amount) ==
    /\ c \in open_ws
    /\ connections[c] # None
    /\ debiting[c] = << >>
    /\ debiting' = IF WithdrawRejected(connections[c], amount)
                   THEN debiting
                   ELSE [debiting EXCEPT ![c] = << "withdraw", connections[c], amount >>]
    /\ raised' = FALSE
    /\ UNCHANGED << table, balance, user_tables, table_timers, restarts, hands, joins,
                    min_raise, closed, conn_vars, wallet_vars, broadcasting, eval_vars >>

\* PokerServer.handle_withdraw resumed: the UPDATE of the balance and the
\* INSERT of the withdrawal row
WithdrawWrite(c) ==
    /\ debiting[c] # << >>
    /\ debiting[c][1] = "withdraw"
    /\ debiting' = [debiting EXCEPT ![c] = << >>]
    /\ WithdrawDebit(debiting[c][2], debiting[c][3])
    /\ raised' = FALSE
    /\ UNCHANGED << table, user_tables, table_timers, restarts, hands, joins,
                    min_raise, closed, conn_vars, total_deposited, orders,
                    broadcasting, eval_vars >>

\* PokerServer.handle_join_cash_table on websocket c up to the await that
\* follows its SELECT of the balance
JoinRead(c, buy_in) ==
    /\ c \in open_ws
    /\ connections[c] # None
    /\ debiting[c] = << >>
    /\ debiting' = IF JoinRejected(connections[c], buy_in)
                   THEN debiting
                   ELSE [debiting EXCEPT ![c] = << "join", connections[c], buy_in >>]
    /\ raised' = FALSE
    /\ UNCHANGED << table, balance, user_tables, table_timers, restarts, hands, joins,
                    min_raise, closed, conn_vars, wallet_vars, broadcasting, eval_vars >>

\* PokerServer.handle_join_cash_table resumed: the UPDATE of the balance, the
\* buy-in row and add_player
JoinWrite(c) ==
    /\ debiting[c] # << >>
    /\ debiting[c][1] = "join"
    /\ debiting' = [debiting EXCEPT ![c] = << >>]
    /\ JoinSeat(debiting[c][2], debiting[c][3])

\* PokerServer.admin_approve_withdrawal; the description of a deposit row holds
\* no ": " (no payout address), and paid tells whether the provider accepts the
\* payout
AdminApprove(tx_id, paid) ==
    /\ transactions' =
          IF tx_id \in DOMAIN transactions
                /\ transactions[tx_id].type # "deposit" /\ paid
          THEN [transactions EXCEPT ![tx_id].status = "completed"]
          ELSE transactions
    /\ raised' = FALSE
    /\ UNCHANGED << table, balance, user_tables, table_timers, restarts, hands, joins,
                    min_raise, closed, conn_vars, total_deposited, orders,
                    broadcasting, debiting, eval_vars >>

\* PokerServer.admin_reject_withdrawal
AdminReject(tx_id) ==
    /\ IF tx_id \in DOMAIN transactions
       THEN /\ balance' = [balance EXCEPT ![transactions[tx_id].user_id] =
                                             @ + transactions[tx_id].amount]
            /\ transactions' = [transactions EXCEPT ![tx_id].status = "rejected"]
       ELSE UNCHANGED << balance, transactions >>
    /\ raised' = FALSE
    /\ UNCHANGED << table, user_tables, table_timers, restarts, hands, joins,
                    min_raise, closed, conn_vars, total_deposited, orders,
                    broadcasting, debiting, eval_vars >>

\* PokerServer.admin_update_balance
AdminUpdateBalance(u, amount) ==
    /\ balance' = [balance EXCEPT ![u] = amount]
    /\ raised' = FALSE
    /\ UNCHANGED << table, user_tables, table_timers, restarts, hands, joins,
                    min_raise, closed, conn_vars, wallet_vars, broadcasting, debiting, eval_vars >>

\* the most rows the transactions table may hold
MaxTx == 6

\* the bounds of a specification, on the state a step leads to
Bounded(maxHands, maxJoins) ==
    /\ hands' <= maxHands
    /\ joins' <= maxJoins
    /\ restarts' <= MaxRestarts
    /\ Len(transactions') <= MaxTx

\* One hand with every request: joins with any buy-in, leaves, every game
\* action, the delayed restart and the turn timer.
Next ==
    \/ \E u \in Users : Login(u, u) /\ Bounded(MaxHands, MaxJoins)
    \/ \E u \in Users, b \in BuyIns :
          Authenticated(u) /\ JoinTable(u, b) /\ Bounded(MaxHands, MaxJoins)
    \/ \E u \in Users : Authenticated(u) /\ LeaveTable(u) /\ Bounded(MaxHands, MaxJoins)
    \/ \E u \in Users, a \in Actions :
          \E amt \in (IF a = "raise" THEN RaiseAmounts(u) ELSE {0}) :
             Authenticated(u) /\ GameAction(u, a, amt) /\ Bounded(MaxHands, MaxJoins)
    \/ RestartHand /\ Bounded(MaxHands, MaxJoins)
    \/ TurnTimeout /\ Bounded(MaxHands, MaxJoins)

Spec == Init /\ [][Next]_vars

\* Spec with the scheduling of the turn timer: a timer task that is
\* outstanding eventually expires (asyncio.sleep returns); nothing obliges a
\* player to send a request.
SpecLive == Spec /\ WF_vars(TurnTimeout /\ Bounded(MaxHands, MaxJoins))

\* Several hands of two players who stay seated: both join with the minimum
\* buy-in, play and sit in or out, and the delayed restarts deal the next hands.
NextPlay ==
    \/ \E u \in Users : Login(u, u) /\ Bounded(MaxHands + 2, 2)
    \/ \E u \in Users :
          Authenticated(u) /\ JoinTable(u, min_buy_in) /\ Bounded(MaxHands + 2, 2)
    \/ \E u \in Users, a \in Actions :
          \E amt \in (IF a = "raise" THEN RaiseAmounts(u) ELSE {0}) :
             Authenticated(u) /\ GameAction(u, a, amt) /\ Bounded(MaxHands + 2, 2)
    \/ RestartHand /\ Bounded(MaxHands + 2, 2)

SpecPlay == Init /\ [][NextPlay]_vars

\* PokerTable.add_player called with a seat, as the class allows
AddPlayerAt(u, chips, position) ==
    LET full == Cardinality(DOMAIN table.players) >= table.max_players
        starts == /\ ~full
                  /\ table.game_phase = "waiting"
                  /\ Cardinality(DOMAIN table.players \cup {u}) >= 2
                  /\ Deals(seat_player(table, u, chips, position))
    IN  /\ \E deck \in Shuffles(starts) :
             table' = add_player(table, u, chips, position, deck).t
        /\ joins' = IF full THEN joins ELSE joins + 1
        /\ hands' = IF starts THEN hands + 1 ELSE hands
        /\ raised' = FALSE
        /\ UNCHANGED << balance, user_tables, table_timers, restarts, conn_vars,
                        wallet_vars, broadcasting, debiting, eval_vars >>
        /\ Track(None, 0)

\* The requests of Next and direct calls of add_player with a seat.
MaxTxAPI == 4

NextAPI ==
    \/ Next /\ Len(transactions') <= MaxTxAPI
    \/ \E u \in Users, position \in 0..1 :
          /\ Authenticated(u)
          /\ AddPlayerAt(u, min_buy_in, position)
          /\ Bounded(MaxHands, MaxJoins)

SpecAPI == Init /\ [][NextAPI]_vars

\* Three users at a table of three seats: joins with the minimum buy-in,
\* leaves, sitting out and in, folds, the delayed restart and the turn timer.
\* No hand of this specification reaches a split pot.
MaxJoins3 == 3

InitDeal ==
    /\ table = NewTable(3)
    /\ balance = [u \in Users3 |-> InitialBalance]
    /\ user_tables = {}
    /\ table_timers = None
    /\ restarts = 0
    /\ hands = 0
    /\ joins = 0
    /\ raised = FALSE
    /\ min_raise = big_blind
    /\ closed = {}
    /\ InitServer
    /\ NoEvaluation

NextDeal ==
    \/ \E u \in Users3 : Login(u, u) /\ Bounded(MaxHands, MaxJoins3)
    \/ \E u \in Users3 :
          Authenticated(u) /\ JoinTable(u, min_buy_in) /\ Bounded(MaxHands, MaxJoins3)
    \/ \E u \in Users3 :
          Authenticated(u) /\ LeaveTable(u) /\ Bounded(MaxHands, MaxJoins3)
    \/ \E u \in Users3, a \in {"fold", "sitout", "sitin"} :
          Authenticated(u) /\ GameAction(u, a, 0) /\ Bounded(MaxHands, MaxJoins3)
    \/ RestartHand /\ Bounded(MaxHands, MaxJoins3)
    \/ TurnTimeout /\ Bounded(MaxHands, MaxJoins3)

SpecDeal == InitDeal /\ [][NextDeal]_vars

\* One hand of two players with logins on any websocket and websockets that
\* close: joins with the minimum buy-in, folds, checks and calls, the delayed
\* restart and the turn timer.
NextConn ==
    \/ \E c \in Conns, u \in Users : Login(c, u) /\ Bounded(MaxHands, MaxJoins)
    \/ \E c \in Conns : Disconnect(c) /\ Bounded(MaxHands, MaxJoins)
    \/ \E u \in Users :
          Authenticated(u) /\ JoinTable(u, min_buy_in) /\ Bounded(MaxHands, MaxJoins)
    \/ \E u \in Users, a \in {"fold", "check", "call"} :
          Authenticated(u) /\ GameAction(u, a, 0) /\ Bounded(MaxHands, MaxJoins)
    \/ RestartHand /\ Bounded(MaxHands, MaxJoins)
    \/ TurnTimeout /\ Bounded(MaxHands, MaxJoins)

SpecConn == Init /\ [][NextConn]_vars

\* One hand of two players in which the handler of a game action is suspended
\* while it broadcasts: the turn timer and the delayed restart run in between.
NextAsync ==
    \/ \E u \in Users : Login(u, u) /\ Bounded(MaxHands, MaxJoins)
    \/ \E u \in Users :
          Authenticated(u) /\ JoinTable(u, min_buy_in) /\ Bounded(MaxHands, MaxJoins)
    \/ \E u \in Users, a \in Actions :
          \E amt \in (IF a = "raise" THEN RaiseAmounts(u) ELSE {0}) :
             /\ Authenticated(u)
             /\ GameActionApply(u, a, amt)
             /\ Bounded(MaxHands, MaxJoins)
    \/ GameActionFinish /\ Bounded(MaxHands, MaxJoins)
    \/ RestartHand /\ Bounded(MaxHands, MaxJoins)
    \/ TurnTimeout /\ Bounded(MaxHands, MaxJoins)

SpecAsync == Init /\ [][NextAsync]_vars

\* The wallet requests of two users with empty wallets, the administrator's
\* requests, and joins and leaves of a private game with a single seat (no
\* hand starts; the second join finds the table full after its debit).
MaxTxWallet == 2
MaxBalance == 20 * Unit
DepositAmounts == {0, 10 * Unit}
WithdrawAmounts == {1 * Unit, 10 * Unit}
AdminAmounts == {0, 10 * Unit}

InitWallet ==
    /\ table = NewTable(1)
    /\ balance = [u \in Users3 |-> 0]
    /\ user_tables = {}
    /\ table_timers = None
    /\ restarts = 0
    /\ hands = 0
    /\ joins = 0
    /\ raised = FALSE
    /\ min_raise = big_blind
    /\ closed = {}
    /\ InitServer
    /\ NoEvaluation

BoundedWallet ==
    /\ Bounded(MaxHands, MaxJoins)
    /\ Len(transactions') <= MaxTxWallet
    /\ \A u \in Users :
          /\ balance'[u] <= MaxBalance
          /\ balance'[u] >= -MaxBalance
          /\ total_deposited'[u] <= MaxBalance

NextWallet ==
    \/ \E u \in Users : Login(u, u) /\ BoundedWallet
    \/ \E u \in Users, amount \in DepositAmounts :
          Authenticated(u) /\ CreateDeposit(u, amount) /\ BoundedWallet
    \/ \E o \in OrderIds : PayerApproves(o) /\ BoundedWallet
    \/ \E u \in Users, o \in OrderIds, captured \in BOOLEAN :
          Authenticated(u) /\ VerifyDeposit(u, o, captured) /\ BoundedWallet
    \/ \E u \in Users, o \in OrderIds :
          Authenticated(u) /\ CancelDeposit(u, o) /\ BoundedWallet
    \/ \E u \in Users, amount \in WithdrawAmounts :
          Authenticated(u) /\ Withdraw(u, amount) /\ BoundedWallet
    \/ \E tx_id \in 1..MaxTxWallet, paid \in BOOLEAN :
          AdminApprove(tx_id, paid) /\ BoundedWallet
    \/ \E tx_id \in 1..MaxTxWallet : AdminReject(tx_id) /\ BoundedWallet
    \/ \E u \in Users, amount \in AdminAmounts :
          AdminUpdateBalance(u, amount) /\ BoundedWallet
    \/ \E u \in Users :
          Authenticated(u) /\ JoinTable(u, min_buy_in) /\ BoundedWallet
    \/ \E u \in Users : Authenticated(u) /\ LeaveTable(u) /\ BoundedWallet

SpecWallet == InitWallet /\ [][NextWallet]_vars

\* The handlers that debit a wallet, split at the await between the SELECT of
\* the balance and the UPDATE: a user logged in on two websockets has two
\* handlers in flight; the operator funds the wallets.
ConnsDebit == {1, 2}
FundAmounts == {10 * Unit}
MaxTxDebit == 2

NextDebit ==
    /\ \/ \E c \in ConnsDebit, u \in Users : debiting[c] = << >> /\ Login(c, u)
       \/ \E u \in Users, amount \in FundAmounts : AdminUpdateBalance(u, amount)
       \/ \E c \in ConnsDebit, amount \in WithdrawAmounts : WithdrawRead(c, amount)
       \/ \E c \in ConnsDebit : WithdrawWrite(c)
       \/ \E c \in ConnsDebit, buy_in \in BuyIns : JoinRead(c, buy_in)
       \/ \E c \in ConnsDebit : JoinWrite(c)
    /\ Bounded(MaxHands, MaxJoins)
    /\ Len(transactions') <= MaxTxDebit

SpecDebit == Init /\ [][NextDebit]_vars

\* HandEvaluator.evaluate on its own: two seven-card hands are drawn from a
\* small set of cards and evaluated.  EvalCardsLow holds the wheel, the low
\* straights and straight flushes, flushes, pairs and unpaired hands;
\* EvalCardsHigh holds the royal flush, quads, full houses, trips and the
\* ace-high straight.
EvalCardsLow == << Card(14, "s"), Card(2, "s"), Card(3, "s"), Card(4, "s"),
                   Card(5, "s"), Card(6, "s"), Card(6, "h"), Card(7, "d"),
                   Card(14, "h"), Card(9, "c") >>
EvalCardsHigh == << Card(14, "s"), Card(13, "s"), Card(12, "s"), Card(11, "s"),
                    Card(10, "s"), Card(14, "h"), Card(14, "d"), Card(14, "c"),
                    Card(13, "h"), Card(9, "d") >>
EvalCards == {EvalCardsLow, EvalCardsHigh}
HoleSize == 2
HandSize == 7

\* the cards of U at the indexes I, in the order of U
RECURSIVE Pick(_, _, _)
Pick(U, I, i) ==
    IF i > Len(U) THEN << >>
    ELSE (IF i \in I THEN << U[i] >> ELSE << >>) \o Pick(U, I, i + 1)

\* the seven-card hands over U
Hands(U) ==
    { Pick(U, I, 1) : I \in {J \in SUBSET (1..Len(U)) : Cardinality(J) = HandSize} }

InitEval ==
    /\ table = NewTable(2)
    /\ balance = [u \in Users |-> InitialBalance]
    /\ user_tables = {}
    /\ table_timers = None
    /\ restarts = 0
    /\ hands = 0
    /\ joins = 0
    /\ raised = FALSE
    /\ min_raise = big_blind
    /\ closed = {}
    /\ InitServer
    /\ \E U \in EvalCards : \E a, b \in Hands(U) : eval_cards = << a, b >>
    /\ eval_out = << >>

\* HandEvaluator.evaluate(hole_cards, community_cards) of a hand
EvaluateHand(h) == evaluate(SubSeq(h, 1, HoleSize), SubSeq(h, HoleSize + 1, Len(h)))

\* both hands are evaluated, as evaluate_showdown does for every player
Evaluate ==
    /\ eval_cards # << >>
    /\ eval_out = << >>
    /\ eval_out' = << EvaluateHand(eval_cards[1]), EvaluateHand(eval_cards[2]) >>
    /\ UNCHANGED << table, balance, user_tables, table_timers, restarts, hands, joins,
                    raised, min_raise, closed, conn_vars, wallet_vars, broadcasting,
                    debiting, eval_cards >>

NextEval == Evaluate

SpecEval == InitEval /\ [][NextEval]_vars

\* every pot split of the bounded model is exact in ticks
SplitExact ==
    table.game_phase = "showdown" =>
        \A i \in DOMAIN table.winners :
            table.winners[i].amount * Len(table.winners) = table.pot

\* ------------------------------------------------------------ properties
RECURSIVE SumChips(_, _)
SumChips(t, S) ==
    IF S = {} THEN 0
    ELSE LET u == CHOOSE x \in S : TRUE
         IN  t.players[u].chips + SumChips(t, S \ {u})

\* the stacks on the table
Chips(t) == SumChips(t, DOMAIN t.players)

\* the stacks plus the pot that is not awarded yet
Total(t) == Chips(t) + (IF t.game_phase \in LivePhases THEN t.pot ELSE 0)

\* the players of the hand that are seated and have not folded
NonFolded(t) ==
    {u \in DOMAIN t.players :
        /\ \E i \in DOMAIN t.active_seat_order : t.active_seat_order[i] = u
        /\ ~t.players[u].folded}

\* the amounts of Next for a request
Amounts(u, a) == IF a = "raise" THEN RaiseAmounts(u) ELSE {0}

\* C1: chip conservation per hand. On every step that neither adds nor removes
\* a player, the stacks plus the not-yet-awarded pot stay the same: blinds,
\* calls and raises move chips from a stack to the pot, and the award moves
\* exactly the pot to the winners.
C1_ChipConservation ==
    [][(DOMAIN table'.players = DOMAIN table.players /\ joins' = joins)
          => Total(table') = Total(table)]_vars

\* C2: in every state of a live street (preflop, flop, turn, river) the player
\* to act is set, is seated, was dealt into the hand, and is not folded, not
\* all-in and not sitting out.
C2_ActorEligible ==
    table.game_phase \in LivePhases =>
        /\ table.current_player # None
        /\ table.current_player \in DOMAIN table.players
        /\ \E i \in DOMAIN table.active_seat_order :
              table.active_seat_order[i] = table.current_player
        /\ ~table.players[table.current_player].folded
        /\ ~table.players[table.current_player].all_in
        /\ ~table.players[table.current_player].is_sitting_out

\* C5: at a showdown between several players only the players with the best
\* score are paid, their shares are whole chip units that differ by at most one
\* unit (the remainder of an uneven pot goes out one unit at a time), and the
\* shares sum to the pot.
C5_ShowdownShares ==
    (/\ table.game_phase = "showdown"
     /\ table.winners # << >>
     /\ table.winners[1].hand # "Opponents Folded"
     /\ \A i \in DOMAIN table.winners : table.winners[i].user_id \in DOMAIN table.players)
    => /\ \A i \in DOMAIN table.winners :
             LET w == table.winners[i].user_id
             IN  /\ w \in NonFolded(table)
                 /\ \A o \in NonFolded(table) :
                       ~ScoreGT(evaluate(table.players[o].cards, table.community_cards).score,
                                evaluate(table.players[w].cards, table.community_cards).score)
       /\ \A i \in DOMAIN table.winners : table.winners[i].amount % Unit = 0
       /\ \A i, j \in DOMAIN table.winners :
             table.winners[i].amount - table.winners[j].amount <= Unit
       /\ SumSeq([i \in DOMAIN table.winners |-> table.winners[i].amount]) = table.pot

\* C6: an accepted action (of a client or forced by the turn timer) that leaves
\* exactly one player of the hand not folded ends the hand in the same step:
\* the street is showdown, the survivor's stack grew by the whole pot, the
\* winners list names only the survivor with the label "Opponents Folded", and
\* no betting action is accepted any more.
C6_SingleSurvivor ==
    [][(/\ table.game_phase \in LivePhases
        /\ DOMAIN table'.players = DOMAIN table.players
        /\ Cardinality(NonFolded(table)) > 1
        /\ Cardinality(NonFolded(table')) = 1)
          => LET w == CHOOSE x \in NonFolded(table') : TRUE
             IN  /\ table'.game_phase = "showdown"
                 /\ table'.players[w].chips = table.players[w].chips + table'.pot
                 /\ table'.winners = << [user_id |-> w, amount |-> table'.pot,
                                         hand |-> "Opponents Folded"] >>
                 /\ \A v \in DOMAIN table'.players, b \in BetActions,
                       m \in {0, big_blind, 2 * big_blind} :
                          ~handle_action(table', v, b, m).ok]_vars

\* a hand that ended because the opponents folded
C6_Witness ==
    /\ table.game_phase = "showdown"
    /\ Cardinality(NonFolded(table)) = 1
    /\ Len(table.winners) = 1
    /\ table.winners[1].hand = "Opponents Folded"
    /\ table.winners[1].amount > 0

\* C7: a removal during a live hand that leaves fewer than two live players
\* puts the table in waiting with pot and community cleared, and the pot is not
\* lost: the stacks left on the table plus the chips returned to the leaver
\* equal the stacks plus the pot before the removal.
C7_RemovalKeepsPot ==
    [][\A u \in Users :
          (/\ u \in user_tables
           /\ u \in DOMAIN table.players
           /\ table.game_phase \in LivePhases
           /\ LeaveTable(u)
           /\ ~raised'
           /\ Cardinality({p \in DOMAIN table'.players :
                              ~table'.players[p].is_sitting_out}) < 2)
          => /\ table'.game_phase = "waiting"
             /\ table'.pot = 0
             /\ table'.community_cards = << >>
             /\ Chips(table') + (balance'[u] - balance[u])
                   = Chips(table) + table.pot]_vars

\* C8: a removal of the player who holds the action in a live hand completes
\* without error, returns the player's stack, and acts as a fold followed by
\* the departure: the player is gone and the action is with a seated player,
\* or the hand has ended.
C8_RemoveActor ==
    [][\A u \in Users :
          (/\ u \in user_tables
           /\ u \in DOMAIN table.players
           /\ table.game_phase \in LivePhases
           /\ table.current_player = u
           /\ LeaveTable(u))
          => /\ ~raised'
             /\ u \notin DOMAIN table'.players
             /\ u \notin user_tables'
             /\ balance'[u] = balance[u] + table.players[u].chips
             /\ table'.game_phase \in LivePhases
                   => table'.current_player \in DOMAIN table'.players]_vars

\* the reasons for which a betting request is rejected
Rejected(u, a, amt) ==
    \/ table.game_phase \notin LivePhases
    \/ u # table.current_player
    \/ /\ u \in DOMAIN table.players
       /\ \/ a = "check" /\ table.players[u].current_bet < table.current_bet
          \/ /\ a = "raise"
             /\ \/ /\ amt < table.current_bet * 2
                   /\ amt # table.players[u].chips + table.players[u].current_bet
                \/ amt - table.players[u].current_bet > table.players[u].chips

\* C9: a betting request rejected because the sender is not the player to act,
\* the street is waiting or showdown, a check is below the bet, or a raise is
\* too small or beyond the stack, fails without raising an exception and
\* leaves the whole table unchanged.
C9_RejectedUnchanged ==
    [][\A u \in Users, a \in BetActions : \A amt \in Amounts(u, a) :
          (/\ u \in user_tables
           /\ Rejected(u, a, amt)
           /\ GameAction(u, a, amt))
          => /\ ~raised'
             /\ table' = table]_vars

\* C3: every accepted raise to a level above the current bet is by at least min_raise over the
\* current bet (the big blind when the street begins, then the size of the
\* last raise), or it is the raiser's committed amount plus the whole stack.
C3_MinRaise ==
    [][\A u \in Users : \A amt \in RaiseAmounts(u) :
          (/\ u \in user_tables
           /\ u \in DOMAIN table.players
           /\ amt > table.current_bet
           /\ handle_action(table, u, "raise", amt).ok
           /\ GameAction(u, "raise", amt))
          => \/ amt - table.current_bet >= min_raise
             \/ amt = table.players[u].current_bet + table.players[u].chips]_vars

\* C4: after an all-in raise by less than min_raise, a raise over the current
\* bet by a player who had already matched the earlier bet in this round is
\* rejected when the action returns to that player.
C4_NoReopen ==
    [][\A u \in Users : \A amt \in RaiseAmounts(u) :
          (/\ u \in closed
           /\ u \in user_tables
           /\ table.game_phase \in LivePhases
           /\ table.current_player = u
           /\ amt > table.current_bet
           /\ GameAction(u, "raise", amt))
          => ~handle_action(table, u, "raise", amt).ok]_vars

\* C10: in every state no two seated players hold the same seat and every
\* seat is in 0..max_players-1 (add_player refuses a full table and a taken
\* seat, and otherwise gives a free seat).
C10_SeatsDistinct ==
    /\ \A p, q \in DOMAIN table.players :
          p # q => table.players[p].position # table.players[q].position
    /\ \A p \in DOMAIN table.players :
          table.players[p].position \in 0..(table.max_players - 1)

\* C11: a join request that seats a player starts a hand exactly when the table
\* was waiting and, with the new player seated, at least two seated players are
\* not sitting out and have chips; the hand then deals two cards to exactly
\* those players, and a player who sits out or has no chips keeps the cards the
\* player had. When start_hand finds fewer than two such players (on a join or
\* on the delayed restart) the table is left waiting and nobody is dealt.
C11_StartOnJoin ==
    [][ LET Eligible(t) == {p \in DOMAIN t.players :
                               ~t.players[p].is_sitting_out /\ t.players[p].chips > 0}
            DealtTo(t, S) ==
                /\ table'.game_phase = "preflop"
                /\ {table'.active_seat_order[i] : i \in DOMAIN table'.active_seat_order} = S
                /\ \A p \in S : Len(table'.players[p].cards) = 2
                /\ \A p \in DOMAIN t.players \ S :
                      table'.players[p].cards = t.players[p].cards
            OnJoin(u, b, t1) ==
                IF table.game_phase = "waiting" /\ Cardinality(Eligible(t1)) >= 2
                THEN DealtTo(t1, Eligible(t1))
                ELSE table' = t1
        IN  /\ \A u \in Users3, b \in BuyIns :
                  ( /\ JoinTable(u, b)
                    /\ b >= min_buy_in /\ b <= max_buy_in /\ balance[u] >= b
                    /\ Cardinality(DOMAIN table.players) < table.max_players )
                  => OnJoin(u, b, seat_player(table, u, b, NoPos))
            /\ RestartHand =>
                  IF Cardinality(Eligible(table)) >= 2
                  THEN DealtTo(table, Eligible(table))
                  ELSE table' = [table EXCEPT !.game_phase = "waiting"]
      ]_vars

\* a hand started by the third join while the first player sits out: the two
\* others hold cards and the player sitting out holds none
C11_Witness ==
    /\ table.game_phase = "preflop"
    /\ joins = 3
    /\ Cardinality(DOMAIN table.players) = 3
    /\ Len(table.active_seat_order) = 2
    /\ \E p \in DOMAIN table.players :
          /\ table.players[p].is_sitting_out
          /\ table.players[p].cards = << >>
          /\ \A q \in DOMAIN table.players \ {p} : Len(table.players[q].cards) = 2

\* C12: when the turn timer expires for the player who still holds the action
\* in a live hand, that player checks if the player's committed amount equals
\* the current bet and folds otherwise, is marked sitting out, and no longer
\* holds the action of that street (another player holds it, or the street or
\* the hand has ended).
C12_TimeoutForces ==
    [][ \A p \in Users3 :
          ( /\ TurnTimeout
            /\ table_timers = p
            /\ table.current_player = p
            /\ table.game_phase \in LivePhases
            /\ p \in DOMAIN table.players )
          => /\ p \in DOMAIN table'.players
             /\ table'.players[p].is_sitting_out
             /\ table'.players[p].chips = table.players[p].chips
                    \/ table'.game_phase = "showdown"
             /\ IF table.players[p].current_bet = table.current_bet
                THEN /\ ~table'.players[p].folded
                     /\ table'.players[p].cards = table.players[p].cards
                     /\ table'.game_phase = table.game_phase
                            => table'.players[p].last_action = "CHECK"
                ELSE /\ table'.players[p].folded
                     /\ table'.players[p].last_action = "FOLD"
             /\ \/ table'.game_phase # table.game_phase
                \/ /\ table'.current_player # p
                   /\ table'.current_player \in DOMAIN table'.players
                   /\ table_timers' = table'.current_player
      ]_vars

\* C13: every step by which the table enters showdown schedules a restart of
\* the hand (the safety part of "a table never stays in showdown forever": the
\* only task that leaves showdown is a scheduled restart_hand).
C13_ShowdownRestarts ==
    [][ (table.game_phase # "showdown" /\ table'.game_phase = "showdown")
            => restarts' = restarts + 1 ]_vars

\* hole cards another deal could have given, and the table with every dealt
\* hand of the players other than v replaced by such cards
OtherHoles ==
    { << Card(2, "s"), Card(3, "s") >>, << Card(14, "h"), Card(14, "d") >> }

WithOtherHoles(t, v, holes) ==
    [t EXCEPT !.players =
        [p \in DOMAIN t.players |->
            IF p # v /\ t.players[p].cards # << >>
            THEN [t.players[p] EXCEPT !.cards = holes]
            ELSE t.players[p]]]

\* C16: in the snapshot for viewer v the cards of another seated player p hold
\* real ranks and suits only if the street is showdown and p has not folded;
\* otherwise they are two hidden placeholders or the empty list. Outside
\* showdown the snapshot for v is the same whatever cards the other players
\* were dealt.
C16_HoleCardsHidden ==
    \A v \in Users3 :
        /\ \A p \in DOMAIN table.players \ {v} :
              ~(table.game_phase = "showdown" /\ ~table.players[p].folded)
                  => get_state(table, v).players[p].cards
                         \in { << >>, << HiddenCard, HiddenCard >> }
        /\ table.game_phase # "showdown" =>
              \A holes \in OtherHoles :
                  get_state(WithOtherHoles(table, v, holes), v) = get_state(table, v)

\* a live street in which the viewer sees the viewer's own two cards and two
\* placeholders for the opponent, who holds two cards
C16_Witness ==
    /\ table.game_phase = "flop"
    /\ \E v \in DOMAIN table.players, p \in DOMAIN table.players :
          /\ p # v
          /\ Len(table.players[p].cards) = 2
          /\ ~table.players[p].folded
          /\ get_state(table, v).players[p].cards = << HiddenCard, HiddenCard >>
          /\ Len(get_state(table, v).players[v].cards) = 2
          /\ get_state(table, v).players[v].cards[1].value
                 = table.players[v].cards[1].rank

\* C17: the two connection maps are inverse of each other: websocket c is
\* mapped to user u exactly when user u is mapped to websocket c (so every user
\* is bound to at most one websocket).
C17_MapsInverse ==
    \A c \in Conns, u \in Users :
        (connections[c] = u) <=> (user_connections[u] = c)

\* C18: when the websocket of a seated user closes, the player stays seated at
\* the same table and seat with the same stack and the same hole cards, and is
\* flagged sitting out; a login changes neither the table nor the users' tables.
C18_DropKeepsSeat ==
    [][ /\ \A c \in Conns, u \in Users :
              ( /\ Disconnect(c)
                /\ connections[c] = u
                /\ u \in user_tables
                /\ u \in DOMAIN table.players )
              => /\ u \in user_tables'
                 /\ u \in DOMAIN table'.players
                 /\ table'.players[u].is_sitting_out
                 /\ table'.players[u].position = table.players[u].position
                 /\ table'.players[u].chips = table.players[u].chips
                 /\ table'.players[u].cards = table.players[u].cards
        /\ \A c \in Conns, u \in Users :
              Login(c, u) => UNCHANGED << table, user_tables >>
      ]_vars

\* C14: whenever a request handler, the websocket cleanup or the delayed
\* restart has finished and the table is in a live street, a turn timer is
\* outstanding and it is the timer of the player who holds the action.
C14_TimerForActor ==
    [][ ~TurnTimeout =>
          (table'.game_phase \in LivePhases =>
              /\ table_timers' # None
              /\ table_timers' = table'.current_player) ]_vars

\* C15: while the handler of an accepted fold, check, call or raise of a player
\* is still broadcasting, the expiry of the timer that was scheduled for that
\* player changes nothing at the table: it forces no action and does not mark
\* the player sitting out.
C15_StaleTimerNoOp ==
    [][ ( /\ broadcasting # << >>
          /\ broadcasting[2] \in BetActions
          /\ table_timers = broadcasting[1]
          /\ TurnTimeout )
        => table' = table ]_vars

\* the completed credits minus the completed debits of a user in the
\* transactions table (a buy-in is stored with a negative amount)
RECURSIVE CompletedSum(_, _)
CompletedSum(txs, u) ==
    IF txs = << >> THEN 0
    ELSE LET tx == Head(txs)
             size == IF tx.amount < 0 THEN -tx.amount ELSE tx.amount
             signed == IF tx.type \in {"withdrawal", "table_buy_in"}
                       THEN -size ELSE size
         IN  (IF tx.user_id = u /\ tx.status = "completed" THEN signed ELSE 0)
                 + CompletedSum(Tail(txs), u)

\* C19: the balance of every wallet is the sum of its completed credit
\* transactions minus the sum of its completed debit transactions.
C19_BalanceIsLedger ==
    \A u \in Users : balance[u] = CompletedSum(transactions, u)

\* C20: a capture_deposit request for an order whose deposit row is already
\* completed leaves the balance, total_deposited and the transactions table
\* unchanged.
C20_CaptureOnce ==
    [][ \A u \in Users, o \in OrderIds, captured \in BOOLEAN :
          ( /\ VerifyDeposit(u, o, captured)
            /\ orders[o] = "COMPLETED"
            /\ \E i \in RowsOfOrder(transactions, o, u) :
                  transactions[i].status = "completed" )
          => UNCHANGED << balance, total_deposited, transactions >> ]_vars

\* C21: an approval or a rejection of a transaction that is not a withdrawal
\* in pending_approval (it is already completed or rejected, or it is not a
\* withdrawal) changes neither the balances nor the transactions table.
C21_ResolveOnce ==
    [][ \A tx_id \in 1..MaxTxWallet :
          ( /\ tx_id \in DOMAIN transactions
            /\ ~( /\ transactions[tx_id].type = "withdrawal"
                  /\ transactions[tx_id].status = "pending_approval" )
            /\ \/ AdminReject(tx_id)
               \/ \E paid \in BOOLEAN : AdminApprove(tx_id, paid) )
          => UNCHANGED << balance, transactions >> ]_vars

\* C22: no interleaving of the withdraw and buy-in handlers of one user makes
\* a wallet balance negative: the balance check and the debit behave as one
\* atomic step.
C22_NoOverdraft == \A u \in Users : balance[u] >= 0

\* C23: a join that fails after the wallet was debited (the table is full)
\* leaves the balance and the table as before and no completed buy-in
\* row without a compensating record (the completed ledger of the user keeps
\* its sum); a join rejected for its buy-in or for insufficient funds changes
\* nothing.
C23_FailedJoinClean ==
    [][ \A u \in Users, buy_in \in BuyIns :
          ( /\ JoinTable(u, buy_in)
            /\ \/ JoinRejected(u, buy_in)
               \/ Cardinality(DOMAIN table.players) >= table.max_players )
          => /\ UNCHANGED << balance, table >>
             /\ CompletedSum(transactions', u) = CompletedSum(transactions, u)
             /\ JoinRejected(u, buy_in) => UNCHANGED transactions ]_vars

\* ---------------------------------------------- the standard hand ranking
\* The rank of five cards under the standard rules, as one integer: the
\* category (0 High Card ... 8 Straight Flush, 9 Royal Flush) and then the
\* ranks that break ties, most significant first (the top card for a
\* straight, else the ranks by multiplicity and then by height), in base 15.
Rank5(h, I) ==
    LET R == {h[i].rank : i \in I}
        Cnt(r) == Cardinality({i \in I : h[i].rank = r})
        flush == \A i, j \in I : h[i].suit = h[j].suit
        hi == CHOOSE r \in R : \A q \in R : q <= r
        lo == CHOOSE r \in R : \A q \in R : q >= r
        top == IF Cardinality(R) = 5 /\ hi - lo = 4 THEN hi
               ELSE IF R = {14, 5, 4, 3, 2} THEN 5 ELSE 0
        cat == IF flush /\ top = 14 THEN 9
               ELSE IF flush /\ top > 0 THEN 8
               ELSE IF \E r \in R : Cnt(r) = 4 THEN 7
               ELSE IF Cardinality(R) = 2 THEN 6
               ELSE IF flush THEN 5
               ELSE IF top > 0 THEN 4
               ELSE IF \E r \in R : Cnt(r) = 3 THEN 3
               ELSE IF Cardinality(R) = 3 THEN 2
               ELSE IF Cardinality(R) = 4 THEN 1
               ELSE 0
        Below(r) == {q \in R : Cnt(q) < Cnt(r) \/ (Cnt(q) = Cnt(r) /\ q < r)}
        tie == IF top > 0 THEN top
               ELSE SumSeq([k \in 1..13 |->
                       IF (k + 1) \in R
                       THEN (k + 1) * 15 ^ Cardinality(Below(k + 1)) ELSE 0])
    IN  cat * 15 ^ 5 + tie

\* the rank of the best five cards of a seven-card hand
Best(h) ==
    LET ranks == { Rank5(h, I) : I \in {J \in SUBSET (1..HandSize) : Cardinality(J) = 5} }
    IN  CHOOSE b \in ranks : \A r \in ranks : r <= b

\* the category index of a description of the evaluator
Category(desc) ==
    CASE desc = "High Card" -> 0 [] desc = "Pair" -> 1 [] desc = "Two Pair" -> 2
      [] desc = "Three of a Kind" -> 3 [] desc = "Straight" -> 4
      [] desc = "Flush" -> 5 [] desc = "Full House" -> 6
      [] desc = "Four of a Kind" -> 7 [] desc = "Straight Flush" -> 8
      [] desc = "Royal Flush" -> 9 [] OTHER -> -1

\* C24: the score of every seven-card hand lies in the band of the category
\* the evaluator reports (score = k * 10^10 + w with 0 <= w < 10^10, k the
\* index of the category), and that category is the best one the seven cards
\* contain.
C24_ScoreInBand ==
    \A n \in DOMAIN eval_out :
        /\ eval_out[n].score[1] = Category(eval_out[n].desc)
        /\ eval_out[n].score[2] >= 0
        /\ eval_out[n].score[2] \div 100000 < 100000
        /\ eval_out[n].score[1] = Best(eval_cards[n]) \div 15 ^ 5

C24_Witness ==
    /\ eval_out # << >>
    /\ eval_out[1].desc = "Full House"
    /\ eval_out[2].desc = "Straight"

\* C25: the score of hand A is greater than the score of hand B exactly when
\* the best five cards of A beat the best five cards of B under the standard
\* rules, and the scores are equal exactly when the hands tie.
C25_ScoreOrdersHands ==
    LET Agree(a, b) ==
            /\ ScoreGT(eval_out[1].score, eval_out[2].score) <=> a > b
            /\ eval_out[1].score = eval_out[2].score <=> a = b
    IN  eval_out # << >> => Agree(Best(eval_cards[1]), Best(eval_cards[2]))

C25_Witness ==
    /\ eval_out # << >>
    /\ eval_out[1].desc = "Two Pair"
    /\ eval_out[2].desc = "Two Pair"
    /\ eval_out[1].score[2] - eval_out[2].score[2] \in 1..Pow100(2)

\* the best five cards of a hand are the wheel A-2-3-4-5 (not a flush)
Wheel(h) == Best(h) = 4 * 15 ^ 5 + 5

\* C26: of two Straights the one with the higher top card scores strictly
\* higher; the wheel A-2-3-4-5 counts as five-high: it scores below every other
\* Straight and above every hand of a lower category.
C26_StraightsByTop ==
    LET Ordered(a, b) ==
            /\ ( /\ eval_out[1].desc = "Straight"
                 /\ eval_out[2].desc = "Straight" )
               => ( ScoreGT(eval_out[1].score, eval_out[2].score)
                      <=> a % 15 ^ 5 > b % 15 ^ 5 )
            /\ a = 4 * 15 ^ 5 + 5
               => /\ eval_out[1].score = << 4, 5 * Pow100(4) >>
                  /\ ( eval_out[2].desc = "Straight" /\ b # a )
                     => ScoreGT(eval_out[2].score, eval_out[1].score)
                  /\ Category(eval_out[2].desc) < 4
                     => ScoreGT(eval_out[1].score, eval_out[2].score)
    IN  eval_out # << >> => Ordered(Best(eval_cards[1]), Best(eval_cards[2]))

C26_Witness ==
    /\ eval_out # << >>
    /\ Wheel(eval_cards[1])
    /\ eval_out[2].score = << 4, 6 * Pow100(4) >>

\* C27: a game action and its broadcast are atomic for the table: while the
\* handler of an accepted action is still broadcasting, no step changes the
\* table, so every recipient of the broadcast is sent the same state.
C27_BroadcastAtomic ==
    [][ broadcasting # << >> => table' = table ]_vars

\* the table at the point where handle_action hands over to _next_turn: the
\* effect of the action of user u is applied and u is recorded as having acted
BeforeNextTurn(u, action, amount) ==
    LET t == IF action = "sitout"
             THEN [table EXCEPT !.players[u].is_sitting_out = TRUE] ELSE table
        Acted(e) == [e.t EXCEPT !.players_acted = @ \cup {u}]
    IN  Acted(bet_effect(t, u, IF action = "sitout" THEN "fold" ELSE action, amount))

\* every player of the hand who is neither folded nor all-in has matched the
\* current bet and has acted in this round
RoundComplete(t) ==
    \A i \in DOMAIN t.active_seat_order :
        LET uid == t.active_seat_order[i]
        IN  (~t.players[uid].folded /\ ~t.players[uid].all_in)
            => /\ t.players[uid].current_bet = t.current_bet
               /\ uid \in t.players_acted

\* all players of the hand but one have folded
OneLeft(t) ==
    Cardinality({i \in DOMAIN t.active_seat_order :
                    ~t.players[t.active_seat_order[i]].folded}) = 1

C29_AllInIffEmpty ==
    table.game_phase \in LivePhases =>
        \A u \in NonFolded(table) :
            table.players[u].all_in <=> table.players[u].chips = 0

\* C30: immediately after a hand is started the blinds are posted: with two
\* dealt players the dealer posts the small blind, the other player the big
\* blind, and the dealer acts first; with three or more the first dealt seat
\* after the dealer posts the small blind, the next one the big blind, and the
\* dealt seat after the big blind acts first.  Each post is min(blind, stack),
\* the pot is the sum of the two posts and the current bet is the big blind.
C30_BlindsPosted ==
    [][ hands' = hands + 1 =>
          LET t == table'
              order == t.active_seat_order
              n == Len(order)
              d == FirstIdx({i \in Indexes(order) :
                               t.players[At(order, i)].position = t.dealer_position}, 0)
              sb == At(order, IF n = 2 THEN d ELSE (d + 1) % n)
              bb == At(order, (IF n = 2 THEN d + 1 ELSE d + 2) % n)
              first == At(order, IF n = 2 THEN d ELSE (d + 3) % n)
              Posted(u, blind) ==
                  t.players[u].current_bet
                      = Min(blind, t.players[u].chips + t.players[u].current_bet)
          IN  /\ n >= 2
              /\ t.game_phase = "preflop"
              /\ Posted(sb, small_blind)
              /\ Posted(bb, big_blind)
              /\ \A i \in DOMAIN order :
                    order[i] \notin {sb, bb} => t.players[order[i]].current_bet = 0
              /\ t.pot = t.players[sb].current_bet + t.players[bb].current_bet
              /\ t.current_bet = big_blind
              /\ t.current_player = first ]_vars

\* a hand was just dealt to three players
C30_Witness ==
    /\ table.game_phase = "preflop"
    /\ Len(table.active_seat_order) = 3
    /\ table.players_acted = {}
    /\ table.pot = small_blind + big_blind
    /\ \A u \in DOMAIN table.players : ~table.players[u].folded

\* C31: at every start of a hand the new dealer seat is the first seat
\* clockwise strictly after the previous dealer seat that holds a player dealt
\* into the hand (seated, not sitting out, with chips).
C31_DealerAdvances ==
    [][ hands' = hands + 1 =>
          LET seats == {table'.players[table'.active_seat_order[i]].position :
                           i \in DOMAIN table'.active_seat_order}
              after == {p \in seats : p > table.dealer_position}
              from == IF after # {} THEN after ELSE seats
          IN  /\ table'.dealer_position \in from
              /\ \A p \in from : table'.dealer_position <= p ]_vars

\* the players of the hand who can still act: not folded, with chips left
AbleToAct(t) == {u \in NonFolded(t) : t.players[u].chips > 0}

\* the first player of S clockwise from the dealer seat (None: S is empty)
FirstFromDealer(t, S) ==
    LET seats == {t.players[u].position : u \in S}
        after == {p \in seats : p > t.dealer_position}
        from == IF after # {} THEN after ELSE seats
        seat == CHOOSE p \in from : \A q \in from : p <= q
    IN  IF S = {} THEN None
        ELSE CHOOSE u \in S : t.players[u].position = seat

\* the street after a live street, and the number of community cards of a street
NextStreet(phase) ==
    CASE phase = "preflop" -> "flop" [] phase = "flop" -> "turn"
      [] phase = "turn" -> "river" [] OTHER -> "showdown"
BoardSize(phase) ==
    CASE phase = "flop" -> 3 [] phase = "turn" -> 4 [] OTHER -> 5

\* C32: when a betting round ends with two or more players not folded, either
\* the hand goes to showdown with exactly five community cards, or a player is
\* able to act and the next street is dealt: the board holds 3, 4 or 5 cards
\* on flop, turn and river, the committed amounts of the street and the
\* current bet are 0, and the first to act is the first player clockwise from
\* the dealer who has not folded and is not all-in.
C32_NextStreet ==
    [][ ( /\ table.game_phase \in LivePhases
          /\ table'.game_phase \notin {table.game_phase, "waiting", "preflop"}
          /\ hands' = hands
          /\ Cardinality(NonFolded(table')) >= 2 )
        => IF table'.game_phase = "showdown"
           THEN Len(table'.community_cards) = 5
           ELSE /\ table'.game_phase = NextStreet(table.game_phase)
                /\ Len(table'.community_cards) = BoardSize(table'.game_phase)
                /\ table'.current_bet = 0
                /\ \A u \in NonFolded(table') : table'.players[u].current_bet = 0
                /\ AbleToAct(table') # {}
                /\ table'.current_player = FirstFromDealer(table', AbleToAct(table')) ]_vars

\* C33: the street changes only along waiting, preflop, flop, turn, river,
\* showdown and the restart, with the jump from a live street to showdown and
\* the return to waiting; no hand is started while the street is live.
C33_StreetOrder ==
    [][ /\ \/ table'.game_phase = table.game_phase
           \/ table.game_phase = "waiting" /\ table'.game_phase = "preflop"
           \/ /\ table.game_phase \in LivePhases
              /\ table'.game_phase \in {NextStreet(table.game_phase), "showdown"}
           \/ table.game_phase = "showdown" /\ table'.game_phase = "preflop"
           \/ table'.game_phase = "waiting"
        /\ table.game_phase \in LivePhases => hands' = hands ]_vars

\* what a player of the hand may collect at most when the pot is layered by
\* contribution: from every player of the hand the smaller of that player's
\* and the collector's own contribution (committed holds the contributions)
Covered(t, w) ==
    SumSeq([i \in DOMAIN t.active_seat_order |->
               Min(t.players[t.active_seat_order[i]].current_bet,
                   t.players[w].current_bet)])

\* C34: at a showdown a player receives from every other player at most the
\* amount the player contributed to the pot during the hand (stated for a hand
\* whose betting ended preflop, where the committed amount of the street is
\* the contribution of the hand).
C34_SidePots ==
    [][ ( /\ table.game_phase = "preflop"
          /\ table'.game_phase = "showdown" )
        => \A u \in Users, a \in BetActions : \A amt \in Amounts(u, a) :
              ( /\ u \in DOMAIN table.players
                /\ GameAction(u, a, amt)
                /\ ~OneLeft(BeforeNextTurn(u, a, amt)) )
              => \A w \in NonFolded(table') :
                    table'.players[w].chips
                        - BeforeNextTurn(u, a, amt).players[w].chips
                      <= Covered(BeforeNextTurn(u, a, amt), w) ]_vars

\* C35: within one street the current bet of the table never decreases and no
\* player of the hand has committed more than it; stacks and pot are never
\* negative.
C35_BetMonotone ==
    [][ /\ ( /\ table.game_phase \in LivePhases
             /\ table'.game_phase = table.game_phase
             /\ hands' = hands )
           => table'.current_bet >= table.current_bet
        /\ table'.game_phase \in LivePhases
           => \A u \in NonFolded(table') :
                 table'.players[u].current_bet <= table'.current_bet
        /\ table'.pot >= 0
        /\ \A u \in DOMAIN table'.players : table'.players[u].chips >= 0 ]_vars

\* C36: while a street is live every user id of the ordered seat list of the
\* hand refers to a player who is still in the player map of the table.
\* Stated for the leave of a player of the hand who does not hold the action.
C36_OrderSeated ==
    [][ \A u \in Users3 :
          ( /\ table.game_phase \in LivePhases
            /\ u \in NonFolded(table)
            /\ u # table.current_player
            /\ LeaveTable(u)
            /\ table'.game_phase \in LivePhases )
          => OrderSeated(table') ]_vars

\* Every hand that is being played eventually reaches the showdown, or the
\* table returns to waiting, when outstanding turn timers expire (SpecLive).
HandCompletes ==
    (table.game_phase \in LivePhases) ~> (table.game_phase \in {"showdown", "waiting"})

\* C37: a hand cannot stall: in every state of a live street a seated player
\* holds the action or a turn timer is outstanding. In a state without either
\* nothing obliges the hand to go on, so HandCompletes fails from it.
C37_NoStalledHand ==
    table.game_phase \in LivePhases =>
        \/ table.current_player \in DOMAIN table.players
        \/ table_timers # None

\* C38: the user -> table map of the server agrees with the table: a user is
\* recorded at the table exactly when the user is in the player map.
C38_MapAgrees ==
    user_tables = DOMAIN table.players

\* C39: once the deposit of an order is cancelled, no capture_deposit request
\* for that order changes the balance or the transactions table, whatever the
\* payment provider reports.
C39_CancelledStays ==
    [][ \A u \in Users, o \in OrderIds, captured \in BOOLEAN :
          ( /\ VerifyDeposit(u, o, captured)
            /\ RowsOfOrder(transactions, o, u) # {}
            /\ \A i \in RowsOfOrder(transactions, o, u) :
                  transactions[i].status = "cancelled" )
          => UNCHANGED << balance, total_deposited, transactions >> ]_vars

\* the money of the system: the wallets, the stacks on the table and the pot
\* that is not awarded yet
RECURSIVE SumBalance(_)
SumBalance(S) ==
    IF S = {} THEN 0
    ELSE LET u == CHOOSE x \in S : TRUE
         IN  balance[u] + SumBalance(S \ {u})

Money(t, S) == SumBalance(S) + Total(t)

\* C40: joining and leaving a table conserve money: over a join_cash_table or
\* a leave_table request the sum of the wallets, the stacks on the table and
\* the un-awarded pot stays the same.
C40_JoinLeaveConserve ==
    [][ ( \/ \E u \in Users, b \in BuyIns : JoinTable(u, b)
          \/ \E u \in Users : LeaveTable(u) )
        => LET After(t, S) == SumBalance(S)' + Total(t)
           IN  After(table', DOMAIN balance) = Money(table, DOMAIN balance) ]_vars

====
